---- MODULE Spec2Model ----
(***************************************************************************)
(* Model of c++/Queue_using_LinkedLIst.cpp: a FIFO queue of int kept in a  *)
(* singly linked list of heap nodes (class LinkedList), with frontNode,    *)
(* rearNode and count (class Queue).                                       *)
(*                                                                         *)
(* The heap is modelled explicitly: nodes live at addresses 1..MaxNodes,   *)
(* `new` returns any address that is not currently allocated (addresses    *)
(* are reused after delete), `delete` leaves the bytes of the node in      *)
(* place.  acquired/released count the new/delete calls per address.       *)
(* pushLog, popLog, popsAtLastPush and last are observers of the calls     *)
(* made on the queue; the code does not read them.                         *)
(***************************************************************************)
EXTENDS Integers, Sequences, FiniteSets

\* ---- bounds -------------------------------------------------------------
\* number of heap addresses the allocator can hand out
MaxNodes == 3
\* number of push calls made on one Queue object
MaxPushes == 3
\* pushed values range over EmptyRet..MaxVal
MaxVal == 0
\* number of different values the transaction id generator draws from
MaxIds == 2
\* payment amounts range over -1..MaxAmount
MaxAmount == 1

\* ---- program constants --------------------------------------------------
\* nullptr
NULL == 0
\* the value front() and pop() return on an empty queue
EmptyRet == -1

Addr == 1..MaxNodes
Values == EmptyRet..MaxVal

VARIABLES
    frontNode,       \* Queue::frontNode, an address or NULL
    rearNode,        \* Queue::rearNode, an address or NULL
    count,           \* Queue::count
    heap,            \* memory: address -> [val, next]
    acquired,        \* address -> number of times `new` returned it
    released,        \* address -> number of times `delete` was called on it
    alive,           \* TRUE from the constructor until the destructor has run
    pushLog,         \* the arguments of all push calls, in call order
    popLog,          \* the results of all pop calls made on a non-empty queue
    popsAtLastPush,  \* Len(popLog) at the time of the latest push
    last             \* the latest call: its name, result and console output

vars == <<frontNode, rearNode, count, heap, acquired, released, alive,
          pushLog, popLog, popsAtLastPush, last>>

\* c++/StrategyPattern_PaymentGateway.cpp, class UserManager
VARIABLES
    users,           \* UserManager::users, name -> user object
    adminCount,      \* UserManager::adminCount
    modCount,        \* UserManager::modCount
    userCount,       \* UserManager::userCount
    umLast           \* the latest UserManager call: name, result, output

umVars == <<users, adminCount, modCount, userCount, umLast>>

\* c++/StrategyPattern_PaymentGateway.cpp, class PaymentManager
VARIABLES
    payments,        \* PaymentManager::payments, key -> payment object
    pmLast           \* the latest PaymentManager call: name, result, output

pmVars == <<payments, pmLast>>

\* ---- the heap -----------------------------------------------------------
\* the addresses currently allocated
Live == {a \in Addr : acquired[a] > released[a]}

\* the addresses `new` may return
FreeAddr == {a \in Addr : acquired[a] <= released[a]}

\* LinkedList::LinkedList(int data)
LinkedList(data) == [val |-> data, next |-> NULL]

\* `new LinkedList(data)` placed at address a
NewKeepNext(h, a, data) == [h EXCEPT ![a].val = data]
New(h, a, data) == [h EXCEPT ![a] = LinkedList(data)]

\* `delete temp`
DeleteNone(rel, temp) == rel
Delete(rel, temp) == [rel EXCEPT ![temp] = @ + 1]

\* ---- Queue::push, the pieces ---------------------------------------------
\* frontNode after push: set only when the queue was empty
PushFrontNodeKept(f, r, newNode) == f
PushFrontNode(f, r, newNode) == IF r = NULL THEN newNode ELSE f

\* rearNode after push: the new node on both branches
PushRearNodeStale(r, newNode) == IF r = NULL THEN newNode ELSE r
PushRearNode(r, newNode) == newNode

\* rearNode->next = newNode, on the non-empty branch
PushLinkNone(h, r, newNode) == h
PushLink(h, r, newNode) ==
    IF r = NULL THEN h ELSE [h EXCEPT ![r].next = newNode]

\* ---- Queue::pop, the pieces ----------------------------------------------
\* int data = frontNode->val
PopDataRear(h, f, r) == h[r].val
PopData(h, f, r) == h[f].val

\* frontNode = frontNode->next
PopFrontNodeStay(h, f) == f
PopFrontNode(h, f) == h[f].next

\* if (frontNode == nullptr) rearNode = nullptr
PopRearNodeKept(newFront, r) == r
PopRearNode(newFront, r) == IF newFront = NULL THEN NULL ELSE r

\* count--
PopCountKept(c) == c
PopCountReset(c) == 0
PopCount(c) == c - 1

\* ---- Queue::front and Queue::size as functions of the state -------------
FrontResultSecond(h, f) ==
    IF f = NULL THEN EmptyRet
    ELSE IF h[f].next = NULL THEN h[f].val ELSE h[h[f].next].val
FrontResultOther(h, f) == IF f = NULL THEN EmptyRet - 1 ELSE h[f].val
FrontResult(h, f) == IF f = NULL THEN EmptyRet ELSE h[f].val

FrontOutput(f) == IF f = NULL THEN "Queue is empty" ELSE ""

SizeResult(c) == c

\* ---- Queue::~Queue, the loop ---------------------------------------------
\* the release counts after walking the chain from f and deleting each node
RECURSIVE DestroyLoopLeaky(_, _, _)
DestroyLoopLeaky(h, f, rel) ==
    IF f = NULL \/ h[f].next = NULL THEN rel
    ELSE DestroyLoopLeaky(h, h[f].next, Delete(rel, f))

RECURSIVE DestroyLoop(_, _, _)
DestroyLoop(h, f, rel) ==
    IF f = NULL THEN rel
    ELSE DestroyLoop(h, h[f].next, Delete(rel, f))

\* ---- the operations ------------------------------------------------------
\* Queue::Queue()
Init ==
    /\ frontNode = NULL
    /\ rearNode = NULL
    /\ count = 0
    /\ heap = [a \in Addr |-> LinkedList(0)]
    /\ acquired = [a \in Addr |-> 0]
    /\ released = [a \in Addr |-> 0]
    /\ alive = TRUE
    /\ pushLog = <<>>
    /\ popLog = <<>>
    /\ popsAtLastPush = 0
    /\ last = [op |-> "Queue", ret |-> 0, out |-> ""]

\* void Queue::push(int data)
push ==
    /\ alive
    /\ Len(pushLog) < MaxPushes
    /\ \E data \in Values, newNode \in FreeAddr :
        LET h1 == New(heap, newNode, data) IN
        /\ acquired' = [acquired EXCEPT ![newNode] = @ + 1]
        /\ heap' = PushLink(h1, rearNode, newNode)
        /\ frontNode' = PushFrontNode(frontNode, rearNode, newNode)
        /\ rearNode' = PushRearNode(rearNode, newNode)
        /\ count' = count + 1
        /\ pushLog' = Append(pushLog, data)
        /\ popsAtLastPush' = Len(popLog)
        /\ last' = [op |-> "push", ret |-> 0, out |-> ""]
    /\ UNCHANGED <<released, alive, popLog>>
    /\ UNCHANGED <<umVars, pmVars>>

\* Queue::pop on an empty queue: print and return -1
PopEmptyCounting ==
    /\ last' = [op |-> "pop", ret |-> EmptyRet, out |-> "Queue is empty"]
    /\ count' = PopCount(count)
    /\ UNCHANGED <<frontNode, rearNode, heap, acquired, released, popLog>>

PopEmpty ==
    /\ last' = [op |-> "pop", ret |-> EmptyRet, out |-> "Queue is empty"]
    /\ UNCHANGED <<frontNode, rearNode, count, heap, acquired, released,
                   popLog>>

\* Queue::pop on a non-empty queue: unlink, delete and return the front node
PopNonEmpty ==
    LET temp == frontNode
        data == PopData(heap, frontNode, rearNode)
        newFront == PopFrontNode(heap, frontNode)
    IN  /\ frontNode' = newFront
        /\ rearNode' = PopRearNode(newFront, rearNode)
        /\ released' = Delete(released, temp)
        /\ count' = PopCount(count)
        /\ popLog' = Append(popLog, data)
        /\ last' = [op |-> "pop", ret |-> data, out |-> ""]
        /\ UNCHANGED <<heap, acquired>>

\* int Queue::pop()
pop ==
    /\ alive
    /\ IF frontNode = NULL THEN PopEmpty ELSE PopNonEmpty
    /\ UNCHANGED <<alive, pushLog, popsAtLastPush>>
    /\ UNCHANGED <<umVars, pmVars>>

\* int Queue::front()
front ==
    /\ alive
    /\ last' = [op |-> "front", ret |-> FrontResult(heap, frontNode),
                out |-> FrontOutput(frontNode)]
    /\ UNCHANGED <<frontNode, rearNode, count, heap, acquired, released,
                   alive, pushLog, popLog, popsAtLastPush>>
    /\ UNCHANGED <<umVars, pmVars>>

\* int Queue::size()
size ==
    /\ alive
    /\ last' = [op |-> "size", ret |-> SizeResult(count), out |-> ""]
    /\ UNCHANGED <<frontNode, rearNode, count, heap, acquired, released,
                   alive, pushLog, popLog, popsAtLastPush>>
    /\ UNCHANGED <<umVars, pmVars>>

\* Queue::~Queue()
Destroy ==
    /\ alive
    /\ released' = DestroyLoop(heap, frontNode, released)
    /\ frontNode' = NULL
    /\ alive' = FALSE
    /\ last' = [op |-> "~Queue", ret |-> 0, out |-> ""]
    /\ UNCHANGED <<rearNode, count, heap, acquired, pushLog, popLog,
                   popsAtLastPush>>
    /\ UNCHANGED <<umVars, pmVars>>

Next == push \/ pop \/ front \/ size \/ Destroy

\* ---- UserManager ---------------------------------------------------------
\* the names main() registers
UserNames == {"Alice", "Bob", "Charlie"}

\* enum Role
Roles == {"ADMIN_ROLE", "MOD_ROLE", "USER_ROLE"}

\* make_shared<Admin>(name), make_shared<Moderator>(name),
\* make_shared<User>(name): the object the switch on role builds
MakeUser(name, role) ==
    [name |-> name,
     class |-> CASE role = "ADMIN_ROLE" -> "Admin"
                 [] role = "MOD_ROLE" -> "Moderator"
                 [] role = "USER_ROLE" -> "User"]

\* BaseUser::getRoleName, as overridden by Admin, Moderator and User
getRoleName(u) ==
    CASE u.class = "Admin" -> "ADMIN"
      [] u.class = "Moderator" -> "MOD"
      [] u.class = "User" -> "USER"

\* the three counters after the ++ of the switch on a Role
CountersInc(role, ac, mc, uc) ==
    CASE role = "ADMIN_ROLE" -> <<ac + 1, mc, uc>>
      [] role = "MOD_ROLE" -> <<ac, mc + 1, uc>>
      [] role = "USER_ROLE" -> <<ac, mc, uc + 1>>

\* the three counters after the -- of the if chain on a role name
CountersDecNoMod(roleName, ac, mc, uc) ==
    IF roleName = "ADMIN" THEN <<ac - 1, mc, uc>>
    ELSE <<ac, mc, uc - 1>>
CountersDec(roleName, ac, mc, uc) ==
    IF roleName = "ADMIN" THEN <<ac - 1, mc, uc>>
    ELSE IF roleName = "MOD" THEN <<ac, mc - 1, uc>>
    ELSE <<ac, mc, uc - 1>>

\* users[name] = obj
MapPut(m, k, v) == [x \in DOMAIN m \cup {k} |-> IF x = k THEN v ELSE m[x]]

\* users.erase(name)
MapErase(m, k) == [x \in DOMAIN m \ {k} |-> m[x]]

\* removeUser: role == "ADMIN" && adminCount <= 1
RemoveBlockedLax(roleName, ac) == roleName = "ADMIN" /\ ac < 1
RemoveBlocked(roleName, ac) == roleName = "ADMIN" /\ ac <= 1

\* changeRole: the user already has the requested role
SameRoleAdminOnly(newRole, currentRole) ==
    newRole = "ADMIN_ROLE" /\ currentRole = "ADMIN"
SameRole(newRole, currentRole) ==
    \/ newRole = "ADMIN_ROLE" /\ currentRole = "ADMIN"
    \/ newRole = "MOD_ROLE" /\ currentRole = "MOD"
    \/ newRole = "USER_ROLE" /\ currentRole = "USER"

UMResult(op, name, ret, out) ==
    [op |-> op, name |-> name, ret |-> ret, out |-> out, totals |-> <<>>]

\* UserManager manager;
UMInit ==
    /\ users = <<>>
    /\ adminCount = 0
    /\ modCount = 0
    /\ userCount = 0
    /\ umLast = UMResult("UserManager", "", TRUE, "")

\* bool UserManager::addNewUser(const string& name, Role role)
addNewUser(name, role) ==
    /\ IF name \in DOMAIN users
       THEN /\ umLast' = UMResult("addNewUser", name, FALSE,
                                  "User already exists.")
            /\ UNCHANGED <<users, adminCount, modCount, userCount>>
       ELSE LET c == CountersInc(role, adminCount, modCount, userCount) IN
            /\ adminCount' = c[1]
            /\ modCount' = c[2]
            /\ userCount' = c[3]
            /\ users' = MapPut(users, name, MakeUser(name, role))
            /\ umLast' = UMResult("addNewUser", name, TRUE,
                                  "added successfully.")
    /\ UNCHANGED <<vars, pmVars>>

\* bool UserManager::removeUser(const string& name)
removeUser(name) ==
    /\ IF name \notin DOMAIN users
       THEN /\ umLast' = UMResult("removeUser", name, FALSE,
                                  "User does not exist.")
            /\ UNCHANGED <<users, adminCount, modCount, userCount>>
       ELSE LET role == getRoleName(users[name]) IN
            IF RemoveBlocked(role, adminCount)
            THEN /\ umLast' = UMResult("removeUser", name, FALSE,
                                       "Cannot remove the last admin user.")
                 /\ UNCHANGED <<users, adminCount, modCount, userCount>>
            ELSE LET c == CountersDec(role, adminCount, modCount, userCount)
                 IN  /\ adminCount' = c[1]
                     /\ modCount' = c[2]
                     /\ userCount' = c[3]
                     /\ users' = MapErase(users, name)
                     /\ umLast' = UMResult("removeUser", name, TRUE,
                                           "removed successfully.")
    /\ UNCHANGED <<vars, pmVars>>

\* bool UserManager::changeRole(const string& name, Role newRole)
changeRole(name, newRole) ==
    /\ IF name \notin DOMAIN users
       THEN /\ umLast' = UMResult("changeRole", name, FALSE,
                                  "User does not exist.")
            /\ UNCHANGED <<users, adminCount, modCount, userCount>>
       ELSE LET currentRole == getRoleName(users[name]) IN
            IF SameRole(newRole, currentRole)
            THEN /\ umLast' = UMResult("changeRole", name, FALSE,
                                       "User already has the same role.")
                 /\ UNCHANGED <<users, adminCount, modCount, userCount>>
            ELSE LET d == CountersDec(currentRole, adminCount, modCount,
                                      userCount)
                     c == CountersInc(newRole, d[1], d[2], d[3])
                 IN  /\ adminCount' = c[1]
                     /\ modCount' = c[2]
                     /\ userCount' = c[3]
                     /\ users' = MapPut(users, name, MakeUser(name, newRole))
                     /\ umLast' = UMResult("changeRole", name, TRUE,
                                           "Role changed successfully")
    /\ UNCHANGED <<vars, pmVars>>

\* void UserManager::viewAllUsers()
viewAllUsers ==
    /\ umLast' = IF DOMAIN users = {}
                 THEN UMResult("viewAllUsers", "", TRUE,
                               "No users in the system.")
                 ELSE [op |-> "viewAllUsers", name |-> "", ret |-> TRUE,
                       out |-> "Total Users",
                       totals |-> <<Cardinality(DOMAIN users), adminCount,
                                    modCount, userCount>>]
    /\ UNCHANGED <<users, adminCount, modCount, userCount>>
    /\ UNCHANGED <<vars, pmVars>>

UMNext ==
    \/ \E name \in UserNames, role \in Roles : addNewUser(name, role)
    \/ \E name \in UserNames : removeUser(name)
    \/ \E name \in UserNames, newRole \in Roles : changeRole(name, newRole)
    \/ viewAllUsers

\* the number of registered users whose getRoleName() is roleName
NumWithRole(roleName) ==
    Cardinality({n \in DOMAIN users : getRoleName(users[n]) = roleName})

\* ---- PaymentManager -----------------------------------------------------
\* strings are sequences of characters; + is \o and "" is <<>>
VisaName == <<"V", "I", "S", "A">>
MasterCardName == <<"M", "A", "S", "T", "E", "R", "C", "A", "R", "D">>
VisaPrefix == <<"V", "I", "S", "A", "_">>
MasterCardPrefix == <<"M", "C", "_">>
InvalidKey == <<"I", "N", "V", "A", "L", "I", "D", "_", "K", "E", "Y">>

\* std::to_string of a non-negative int
RECURSIVE to_string(_)
to_string(n) ==
    LET digit == <<"0", "1", "2", "3", "4", "5", "6", "7", "8", "9">>
    IN  IF n < 10 THEN <<digit[n + 1]>>
        ELSE to_string(n \div 10) \o <<digit[(n % 10) + 1]>>

\* uniform_int_distribution<> dis(100000, 999999)
IdMin == 100000
IdMax == 999999

\* the numbers dis(gen) is drawn from in the model
TxNumbers == {n \in IdMin..(IdMin + MaxIds - 1) : n <= IdMax}

\* the amounts passed to startPaymentProcess
Amounts == (-1)..MaxAmount

\* enum class Gateway, and a value that is none of its enumerators
Gateways == {"VISA", "MASTERCARD", "OTHER"}

\* enum class PaymentStatus
Statuses == {"PENDING", "PROCESSING", "FAILED", "SUCCESS"}

\* no payment object: nullptr
NullPayment == [class |-> "nullptr"]

\* BasePayment::BasePayment(double amount) under VisaPayment/MasterCardPayment
BasePayment(class, amount) ==
    [class |-> class, amount |-> amount, transactionId |-> <<>>,
     status |-> "PENDING"]

\* PaymentManager::createPayment
createPayment(gateway, amount) ==
    CASE gateway = "VISA" -> BasePayment("VisaPayment", amount)
      [] gateway = "MASTERCARD" -> BasePayment("MasterCardPayment", amount)
      [] OTHER -> NullPayment

\* getGatewayName, as overridden by VisaPayment and MasterCardPayment
getGatewayName(p) ==
    IF p.class = "VisaPayment" THEN VisaName ELSE MasterCardName

\* BasePayment::generateTransactionId, n being the number drawn
generateTransactionId(prefix, n) == prefix \o to_string(n)

\* processPayment, as overridden by VisaPayment and MasterCardPayment
processPaymentPending(p, n) ==
    [p EXCEPT !.transactionId =
                 generateTransactionId(IF p.class = "VisaPayment"
                                       THEN VisaPrefix
                                       ELSE MasterCardPrefix, n)]
processPayment(p, n) ==
    [p EXCEPT !.transactionId =
                 generateTransactionId(IF p.class = "VisaPayment"
                                       THEN VisaPrefix
                                       ELSE MasterCardPrefix, n),
              !.status = "PROCESSING"]

\* startPaymentProcess: key = getGatewayName() + "_" + transactionId
PaymentKey(p, transactionId) == getGatewayName(p) \o <<"_">> \o transactionId

\* BasePayment::statusToString
statusToString(status) ==
    CASE status = "PENDING" -> "Pending"
      [] status = "PROCESSING" -> "Processing"
      [] status = "FAILED" -> "Failed"
      [] status = "SUCCESS" -> "Success"
      [] OTHER -> "Unknown"

\* startPaymentProcess: if (amount <= 0)
AmountRejectedNegative(amount) == amount < 0
AmountRejected(amount) == amount <= 0

PMResult(op, key, ok, out, status) ==
    [op |-> op, key |-> key, ok |-> ok, out |-> out, status |-> status,
     total |-> 0]

\* PaymentManager manager;
PMInit ==
    /\ payments = <<>>
    /\ pmLast = PMResult("PaymentManager", <<>>, TRUE, "", "")

\* string PaymentManager::startPaymentProcess(Gateway gateway, double amount)
startPaymentProcess(gateway, amount) ==
    /\ IF AmountRejected(amount)
       THEN /\ pmLast' = PMResult("startPaymentProcess", <<>>, FALSE,
                                  "Error: Invalid payment amount.", "")
            /\ UNCHANGED payments
       ELSE LET payment == createPayment(gateway, amount) IN
            IF payment = NullPayment
            THEN /\ pmLast' = PMResult("startPaymentProcess", <<>>, FALSE,
                                       "Error: Unsupported payment gateway.",
                                       "")
                 /\ UNCHANGED payments
            ELSE \E n \in TxNumbers :
                 LET processed == processPayment(payment, n)
                     transactionId == processed.transactionId
                     key == PaymentKey(processed, transactionId)
                 IN  /\ payments' = MapPut(payments, key, processed)
                     /\ pmLast' = PMResult("startPaymentProcess", key, TRUE,
                                           "Payment registered with key",
                                           "")
    /\ UNCHANGED <<vars, umVars>>

\* void PaymentManager::getPaymentStatus(const string& key)
getPaymentStatus(key) ==
    /\ pmLast' = IF key \in DOMAIN payments
                 THEN PMResult("getPaymentStatus", key, TRUE,
                               "Payment Status",
                               statusToString(payments[key].status))
                 ELSE PMResult("getPaymentStatus", key, FALSE,
                               "Error: No payment found with key", "")
    /\ UNCHANGED payments
    /\ UNCHANGED <<vars, umVars>>

\* bool PaymentManager::updatePaymentStatus(const string& key,
\*                                          PaymentStatus newStatus)
updatePaymentStatus(key, newStatus) ==
    /\ pmLast' = IF key \in DOMAIN payments
                 THEN PMResult("updatePaymentStatus", key, TRUE,
                               "Payment status updated for key", "")
                 ELSE PMResult("updatePaymentStatus", key, FALSE,
                               "Error: Cannot update status.", "")
    /\ UNCHANGED payments
    /\ UNCHANGED <<vars, umVars>>

\* void PaymentManager::listAllPayments()
listAllPayments ==
    /\ pmLast' = IF DOMAIN payments = {}
                 THEN PMResult("listAllPayments", <<>>, TRUE,
                               "No payments found.", "")
                 ELSE [PMResult("listAllPayments", <<>>, TRUE,
                                "Total payments", "")
                       EXCEPT !.total = Cardinality(DOMAIN payments)]
    /\ UNCHANGED payments
    /\ UNCHANGED <<vars, umVars>>

\* the keys startPaymentProcess can return
PossibleKeys ==
    {PaymentKey(processPayment(createPayment(g, 1), n),
                processPayment(createPayment(g, 1), n).transactionId) :
         g \in {"VISA", "MASTERCARD"}, n \in TxNumbers}

\* the keys passed to getPaymentStatus and updatePaymentStatus
KeyInputs == PossibleKeys \cup {InvalidKey}

PMNext ==
    \/ \E gateway \in Gateways, amount \in Amounts :
           startPaymentProcess(gateway, amount)
    \/ \E key \in KeyInputs : getPaymentStatus(key)
    \/ \E key \in KeyInputs, newStatus \in Statuses :
           updatePaymentStatus(key, newStatus)
    \/ listAllPayments

\* ---- the specifications ---------------------------------------------------
\* the three programs share nothing: each specification constructs the three
\* objects and then makes calls on one of them
InitAll ==
    /\ Init
    /\ UMInit
    /\ PMInit

\* one Queue object and the calls made on it
Spec == InitAll /\ [][Next]_vars

\* one UserManager object and the calls made on it
SpecUM == InitAll /\ [][UMNext]_umVars

\* one PaymentManager object and the calls made on it
SpecPM == InitAll /\ [][PMNext]_pmVars

\* ---- derived views of the state -----------------------------------------
\* the addresses met when following next links from f, in order
RECURSIVE Chain(_, _, _)
Chain(h, f, fuel) ==
    IF f = NULL \/ fuel = 0 THEN <<>>
    ELSE <<f>> \o Chain(h, h[f].next, fuel - 1)

\* the chain from frontNode; a chain longer than MaxNodes + 1 has a cycle
Nodes == Chain(heap, frontNode, MaxNodes + 1)

\* the values stored along the chain, oldest first
Contents == [i \in 1..Len(Nodes) |-> heap[Nodes[i]].val]

\* the pushed values that no pop has returned yet, oldest first
Pending == SubSeq(pushLog, Len(popLog) + 1, Len(pushLog))

\* the step is a call of the named Queue operation: every operation records
\* its name in last
Called(op) == last'.op = op

\* ---- the claims ---------------------------------------------------------
\* C1: FIFO order.  When every push on the queue was made before the first
\* pop that returned an element, the k-th such pop returns the k-th pushed
\* value: the pop results are v1, v2, ..., in push order, and after n pops
\* they are exactly v1..vn.
FIFOOrder ==
    popsAtLastPush = 0 =>
        /\ Len(popLog) <= Len(pushLog)
        /\ popLog = SubSeq(pushLog, 1, Len(popLog))

\* three pushes of values that differ, then three pops, nothing in between
FIFOOrderWitness ==
    /\ popsAtLastPush = 0
    /\ Len(pushLog) = 3
    /\ pushLog[1] # pushLog[2]
    /\ pushLog[2] # pushLog[3]
    /\ popLog = pushLog

\* C2: interleaved FIFO.  Under any interleaving of push and pop the values
\* stored along the chain are the pushed values no pop has returned yet,
\* oldest first, and every pop on a non-empty queue returns the oldest of
\* them and removes exactly that one.
InterleavedFIFO ==
    /\ [](alive => Contents = Pending)
    /\ [][(pop /\ Pending # <<>>) =>
            /\ last'.ret = Head(Pending)
            /\ Pending' = Tail(Pending)
            /\ Contents' = Tail(Contents)]_vars

\* push, push, pop, push, then drained, with three different values
InterleavedFIFOWitness ==
    /\ Len(pushLog) = 3
    /\ popsAtLastPush = 1
    /\ pushLog[1] # pushLog[2]
    /\ pushLog[2] # pushLog[3]
    /\ popLog = pushLog
    /\ last.op = "pop"

\* C3: size accounting.  size() is the number of pushes minus the number of
\* pops made on a non-empty queue, and it is never negative; a pop on an
\* empty queue does not count.
SizeAccounting ==
    /\ SizeResult(count) = Len(pushLog) - Len(popLog)
    /\ SizeResult(count) >= 0

\* a pop on the empty queue made after two pushes and two pops
SizeAccountingWitness ==
    /\ last.op = "pop"
    /\ last.out = "Queue is empty"
    /\ Len(pushLog) = 2
    /\ Len(popLog) = 2

\* C4: while the Queue object lives, count = 0 iff frontNode is null iff
\* rearNode is null.
EmptyIffNull ==
    alive =>
        /\ (count = 0) <=> (frontNode = NULL)
        /\ (frontNode = NULL) <=> (rearNode = NULL)

\* a queue that held two elements and was drained by pop
EmptyIffNullWitness ==
    /\ alive
    /\ Len(pushLog) = 2
    /\ Len(popLog) = 2
    /\ last.op = "pop"
    /\ count = 0
    /\ rearNode = NULL

\* C5: while the Queue object lives and count > 0, following next links from
\* frontNode meets count different nodes, the last of them is rearNode (so
\* rearNode is count - 1 steps from frontNode), and rearNode->next is null.
ChainShape ==
    (alive /\ count > 0) =>
        /\ Len(Nodes) = count
        /\ \A i, j \in 1..Len(Nodes) : Nodes[i] = Nodes[j] => i = j
        /\ rearNode # NULL
        /\ Nodes[Len(Nodes)] = rearNode
        /\ heap[rearNode].next = NULL

\* two elements in a queue that has already popped and pushed again
ChainShapeWitness ==
    /\ alive
    /\ count = 2
    /\ Len(popLog) >= 1
    /\ popsAtLastPush >= 1
    /\ frontNode # rearNode

\* C6: empty after drain.  A front() or pop() made when size() is 0 gives
\* the caller a result that is not a value the queue can store.
EmptySignalDistinct ==
    [][((front \/ pop) /\ SizeResult(count) = 0) =>
            last'.ret \notin Values]_vars

\* C7: pop() and front() on an empty queue change nothing: frontNode and
\* rearNode stay null, count stays 0, no node is allocated, released or
\* written; a push made right after builds the one-element queue a fresh
\* Queue would build.
EmptyOpsNoChange ==
    [][/\ ((front \/ pop) /\ count = 0) =>
            /\ UNCHANGED <<frontNode, rearNode, count, heap, acquired,
                           released>>
            /\ frontNode' = NULL
            /\ rearNode' = NULL
            /\ count' = 0
       /\ (push /\ last.out = "Queue is empty") =>
            /\ frontNode' = rearNode'
            /\ count' = 1
            /\ Contents' = <<pushLog'[Len(pushLog')]>>]_vars

\* front() has just been called on a queue that pop had drained
EmptyOpsNoChangeWitness ==
    /\ alive
    /\ last.op = "front"
    /\ last.out = "Queue is empty"
    /\ Len(pushLog) = 1
    /\ Len(popLog) = 1
    /\ frontNode = NULL
    /\ count = 0

\* C8: teardown safety.  No node is ever released more often than it was
\* allocated, and once the destructor has run every allocation has been
\* released exactly once, whatever pushes and pops came before.
TeardownSafety ==
    /\ \A a \in Addr : released[a] <= acquired[a]
    /\ ~alive => \A a \in Addr : released[a] = acquired[a]

\* the destructor ran on a queue holding two nodes, after an earlier pop
TeardownSafetyWitness ==
    /\ ~alive
    /\ count = 2
    /\ Len(popLog) >= 1
    /\ \E a \in Addr : released[a] = 2

\* C9: after a pop that removed an element, nothing designates the released
\* node: not frontNode, not rearNode, not the next link of a node still
\* allocated; and in every state of a live queue rearNode is null or the
\* address of an allocated node.
NoDanglingReference ==
    /\ [](alive => (rearNode = NULL \/ rearNode \in Live))
    /\ [][(pop /\ count > 0) =>
            /\ frontNode \notin Live'
            /\ frontNode' # frontNode
            /\ rearNode' # frontNode
            /\ \A n \in Live' : heap'[n].next # frontNode]_vars

\* a pop has just removed the only element
NoDanglingReferenceWitness ==
    /\ alive
    /\ last.op = "pop"
    /\ last.out = ""
    /\ Len(pushLog) = 1
    /\ Len(popLog) = 1
    /\ rearNode = NULL
    /\ Live = {}

\* C10: single-element transition.  On a queue that pop has drained, push(x)
\* makes frontNode and rearNode designate the node just allocated, size() is
\* then 1 and front() is x, and the pop that follows returns x.
SingleElementTransition ==
    [][/\ (push /\ count = 0 /\ Len(popLog) > 0) =>
            /\ frontNode' \in FreeAddr
            /\ frontNode' \in Live'
            /\ rearNode' = frontNode'
            /\ SizeResult(count') = 1
            /\ FrontResult(heap', frontNode') = pushLog'[Len(pushLog')]
       /\ (pop /\ last.op = "push" /\ popsAtLastPush > 0
               /\ Len(pushLog) = popsAtLastPush + 1) =>
            /\ last'.ret = pushLog[Len(pushLog)]
            /\ last'.out = ""]_vars

\* push, pop, push, pop
SingleElementTransitionWitness ==
    /\ Len(pushLog) = 2
    /\ popsAtLastPush = 1
    /\ Len(popLog) = 2
    /\ last.op = "pop"
    /\ last.ret = pushLog[2]

\* C11: front() and size() are pure reads.  Neither changes frontNode,
\* rearNode, count, any node's val or next, or the allocation state; on a
\* non-empty queue front() returns the oldest pending value, which is what a
\* pop() made right after it returns; size() returns count.
PureReads ==
    [][/\ (Called("front") \/ Called("size")) =>
            UNCHANGED <<frontNode, rearNode, count, heap, acquired, released>>
       /\ (Called("front") /\ count > 0) =>
            /\ last'.ret = Head(Pending)
            /\ last'.out = ""
       /\ (Called("pop") /\ last.op = "front" /\ count > 0) => last'.ret = last.ret
       /\ Called("size") => last'.ret = count /\ last'.ret = Len(Pending)]_vars

\* front() has just been called on a queue of two different values
PureReadsWitness ==
    /\ alive
    /\ last.op = "front"
    /\ last.out = ""
    /\ count = 2
    /\ pushLog[1] # pushLog[2]
    /\ popLog = <<>>
    /\ last.ret = pushLog[1]

\* C12: the system always has at least one Admin.  Once the registry holds
\* an Admin, every addNewUser, removeUser and changeRole call leaves it with
\* at least one user of role ADMIN, and adminCount >= 1.
AlwaysOneAdmin ==
    [][NumWithRole("ADMIN") >= 1 =>
            /\ NumWithRole("ADMIN")' >= 1
            /\ adminCount' >= 1]_umVars

\* C13: protection against removing the last admin.  removeUser(name) on
\* the only Admin returns false and leaves the user map and the three
\* counters unchanged; removeUser of an Admin returns true only when the
\* registry holds at least two Admins, and then removes that user.
LastAdminProtected ==
    [][\A name \in UserNames :
          (/\ removeUser(name)
           /\ name \in DOMAIN users
           /\ getRoleName(users[name]) = "ADMIN") =>
             /\ NumWithRole("ADMIN") = 1 =>
                   /\ umLast'.ret = FALSE
                   /\ UNCHANGED <<users, adminCount, modCount, userCount>>
             /\ umLast'.ret = TRUE =>
                   /\ NumWithRole("ADMIN") >= 2
                   /\ name \notin DOMAIN users'
             /\ NumWithRole("ADMIN") >= 2 => umLast'.ret = TRUE]_umVars

\* removeUser has just refused to remove the only Admin, other users exist
LastAdminProtectedWitness ==
    /\ umLast.op = "removeUser"
    /\ umLast.ret = FALSE
    /\ umLast.out = "Cannot remove the last admin user."
    /\ umLast.name \in DOMAIN users
    /\ NumWithRole("ADMIN") = 1
    /\ Cardinality(DOMAIN users) = 3

\* C14: updatePaymentStatus(key, newStatus) updates the status.  When it
\* returns true, the payment stored under key has status newStatus.
StatusUpdated ==
    [][\A key \in KeyInputs, newStatus \in Statuses :
          (/\ pmLast'.op = "updatePaymentStatus"
           /\ pmLast'.ok
           /\ updatePaymentStatus(key, newStatus)) =>
             /\ key \in DOMAIN payments'
             /\ payments'[key].status = newStatus]_pmVars

\* C15: startPaymentProcess(gateway, amount) with amount <= 0 returns the
\* empty string and leaves the payment map unchanged, for either gateway.
InvalidAmountRejected ==
    [][\A gateway \in {"VISA", "MASTERCARD"}, amount \in Amounts :
          (/\ amount <= 0
           /\ pmLast'.op = "startPaymentProcess"
           /\ startPaymentProcess(gateway, amount)) =>
             /\ pmLast'.key = <<>>
             /\ pmLast'.ok = FALSE
             /\ UNCHANGED payments]_pmVars

\* an amount <= 0 has just been refused by a manager holding two payments
InvalidAmountRejectedWitness ==
    /\ pmLast.op = "startPaymentProcess"
    /\ pmLast.out = "Error: Invalid payment amount."
    /\ pmLast.key = <<>>
    /\ Cardinality(DOMAIN payments) = 2

\* C16: push(x) allocates exactly one node, holding x with a null next, and
\* adds one to count.  On an empty queue frontNode and rearNode become the
\* new node.  On a non-empty queue frontNode, front() and the nodes already
\* in the chain with their values and order stay as they were, the old
\* rearNode's next becomes the new node and rearNode becomes the new node.
PushEffect ==
    [][Called("push") =>
         /\ Cardinality(Live' \ Live) = 1
         /\ Live \subseteq Live'
         /\ released' = released
         /\ count' = count + 1
         /\ LET newNode == CHOOSE n \in Live' \ Live : TRUE
                x == pushLog'[Len(pushLog')]
            IN  /\ heap'[newNode] = [val |-> x, next |-> NULL]
                /\ rearNode' = newNode
                /\ count = 0 => frontNode' = newNode
                /\ count > 0 =>
                     /\ frontNode' = frontNode
                     /\ FrontResult(heap', frontNode')
                            = FrontResult(heap, frontNode)
                     /\ heap'[rearNode].next = newNode
                     /\ Nodes' = Append(Nodes, newNode)
                     /\ Contents' = Append(Contents, x)
                     /\ \A n \in Live : heap'[n].val = heap[n].val]_vars

\* a push on a non-empty queue has just reused a released address
PushEffectWitness ==
    /\ alive
    /\ last.op = "push"
    /\ count = 2
    /\ rearNode # NULL
    /\ acquired[rearNode] = 2
    /\ released[rearNode] = 1

\* C17: node lifecycle.  In every state of a live Queue the nodes allocated
\* and not yet released are exactly the nodes reachable from frontNode, and
\* there are count of them; a push acquires one node and releases none, a
\* pop on a non-empty queue releases the front node and acquires none, a
\* pop on an empty queue does neither.
NodeLifecycle ==
    /\ [](alive =>
            /\ Live = {Nodes[i] : i \in 1..Len(Nodes)}
            /\ Cardinality(Live) = count
            /\ Len(Nodes) = count)
    /\ [][/\ Called("push") =>
               /\ released' = released
               /\ \E a \in Addr : acquired' = [acquired EXCEPT ![a] = @ + 1]
          /\ (Called("pop") /\ count > 0) =>
               /\ acquired' = acquired
               /\ released' = [released EXCEPT ![frontNode] = @ + 1]
               /\ Live' = Live \ {frontNode}
          /\ (Called("pop") /\ count = 0) =>
               /\ acquired' = acquired
               /\ released' = released]_vars

\* one node left after three pushes and two pops
NodeLifecycleWitness ==
    /\ alive
    /\ Len(pushLog) = 3
    /\ Len(popLog) = 2
    /\ Live = {frontNode}
    /\ last.op = "pop"

\* C18: the two-state machine.  Empty is count = 0, NonEmpty is count >= 1.
\* push leads to NonEmpty from either state; pop from NonEmpty stays in
\* NonEmpty when count was > 1 and leads to Empty when count was 1; pop,
\* front and size on Empty stay in Empty; nothing else changes the state.
TwoStateMachine ==
    [][alive' =>
         /\ count >= 0
         /\ Called("push") => count' >= 1
         /\ (Called("pop") /\ count > 1) => count' >= 1
         /\ (Called("pop") /\ count = 1) => count' = 0
         /\ (Called("pop") /\ count = 0) => count' = 0
         /\ (count = 0 /\ count' # 0) => Called("push")
         /\ (count >= 1 /\ count' = 0) => (Called("pop") /\ count = 1)
         /\ (Called("front") \/ Called("size")) => count' = count]_vars

\* a queue of two elements popped down to empty
TwoStateMachineWitness ==
    /\ alive
    /\ last.op = "pop"
    /\ last.out = ""
    /\ Len(pushLog) = 2
    /\ popsAtLastPush = 0
    /\ Len(popLog) = 2
    /\ count = 0

\* C19: front() and pop() return -1 on an empty queue, and also when the
\* front element is a stored -1: the empty state and the state with -1 at
\* the front give the caller the same value.
SentinelAmbiguity ==
    [][((Called("front") \/ Called("pop")) /\ (count = 0 \/ (count > 0 /\ Head(Pending) = -1)))
          => last'.ret = -1]_vars

\* front() has just returned -1 from a queue that holds a stored -1
SentinelAmbiguityWitness ==
    /\ alive
    /\ last.op = "front"
    /\ last.out = ""
    /\ last.ret = -1
    /\ count > 0
    /\ heap[frontNode].val = -1

\* C20: a startPaymentProcess(gateway, amount) with amount > 0 and one of
\* the two gateways returns the non-empty key gateway name + "_" +
\* transaction id, the id being the gateway prefix followed by the six
\* digits drawn; the map then holds under that key a payment of that
\* gateway and amount with status PROCESSING.
StartPaymentRegistered ==
    [][\A gateway \in {"VISA", "MASTERCARD"}, amount \in Amounts :
          (/\ amount > 0
           /\ pmLast'.op = "startPaymentProcess"
           /\ startPaymentProcess(gateway, amount)) =>
             LET key == pmLast'.key
                 name == IF gateway = "VISA" THEN VisaName ELSE MasterCardName
                 prefix == IF gateway = "VISA" THEN VisaPrefix
                           ELSE MasterCardPrefix
             IN  /\ key # <<>>
                 /\ pmLast'.ok
                 /\ key \in DOMAIN payments'
                 /\ key = name \o <<"_">> \o payments'[key].transactionId
                 /\ Len(payments'[key].transactionId) = Len(prefix) + 6
                 /\ SubSeq(payments'[key].transactionId, 1, Len(prefix))
                        = prefix
                 /\ getGatewayName(payments'[key]) = name
                 /\ payments'[key].amount = amount
                 /\ payments'[key].status = "PROCESSING"
                 /\ payments'[key].status # "PENDING"]_pmVars

\* a MasterCard payment has just been registered next to a Visa payment
StartPaymentRegisteredWitness ==
    /\ pmLast.op = "startPaymentProcess"
    /\ pmLast.ok
    /\ pmLast.key \in DOMAIN payments
    /\ payments[pmLast.key].class = "MasterCardPayment"
    /\ payments[pmLast.key].amount >= 1
    /\ \E k \in DOMAIN payments : payments[k].class = "VisaPayment"

\* C21: in every reachable state adminCount, modCount and userCount equal
\* the number of registered users whose role is ADMIN, MOD and USER; their
\* sum is users.size(), none of them is negative, and the totals that
\* viewAllUsers prints agree with the map.
CountersMatchMap ==
    /\ adminCount = NumWithRole("ADMIN")
    /\ modCount = NumWithRole("MOD")
    /\ userCount = NumWithRole("USER")
    /\ adminCount + modCount + userCount = Cardinality(DOMAIN users)
    /\ adminCount >= 0
    /\ modCount >= 0
    /\ userCount >= 0
    /\ (umLast.op = "viewAllUsers" /\ umLast.totals # <<>>) =>
          /\ umLast.totals[1] = Cardinality(DOMAIN users)
          /\ umLast.totals[1]
                = umLast.totals[2] + umLast.totals[3] + umLast.totals[4]
          /\ umLast.totals[2] = NumWithRole("ADMIN")
          /\ umLast.totals[3] = NumWithRole("MOD")
          /\ umLast.totals[4] = NumWithRole("USER")

\* a Moderator has just been removed from a registry that still holds an
\* Admin and a User
CountersMatchMapWitness ==
    /\ umLast.op = "removeUser"
    /\ umLast.ret = TRUE
    /\ umLast.name \notin DOMAIN users
    /\ modCount = 0
    /\ adminCount = 1
    /\ userCount = 1
    /\ Cardinality(DOMAIN users) = 2

\* C22: an operation that returns false leaves the user map and the three
\* counters unchanged, and these calls return false: addNewUser with a
\* registered name, removeUser and changeRole with an unknown name, and
\* changeRole to the role the user already has.
FalseLeavesUnchanged ==
    [][/\ umLast'.ret = FALSE =>
             UNCHANGED <<users, adminCount, modCount, userCount>>
       /\ (umLast'.op = "addNewUser" /\ umLast'.name \in DOMAIN users) =>
             umLast'.ret = FALSE
       /\ (/\ umLast'.op \in {"removeUser", "changeRole"}
           /\ umLast'.name \notin DOMAIN users) =>
             umLast'.ret = FALSE
       /\ \A name \in UserNames, newRole \in Roles :
             (/\ umLast'.op = "changeRole"
              /\ name \in DOMAIN users
              /\ users[name] = MakeUser(name, newRole)
              /\ changeRole(name, newRole)) =>
                umLast'.ret = FALSE]_umVars

\* changeRole has just refused to give a Moderator the role it has, in a
\* registry of three users
FalseLeavesUnchangedWitness ==
    /\ umLast.op = "changeRole"
    /\ umLast.ret = FALSE
    /\ umLast.out = "User already has the same role."
    /\ umLast.name \in DOMAIN users
    /\ getRoleName(users[umLast.name]) = "MOD"
    /\ Cardinality(DOMAIN users) = 3

\* C23: every successful startPaymentProcess adds exactly one new entry to
\* the payment map: the key it returns was not registered before, the
\* number of registered payments grows by one, and every payment
\* registered earlier is still there as it was.
EveryStartAddsEntry ==
    [][(pmLast'.op = "startPaymentProcess" /\ pmLast'.ok) =>
          /\ pmLast'.key \notin DOMAIN payments
          /\ Cardinality(DOMAIN payments')
                = Cardinality(DOMAIN payments) + 1
          /\ \A k \in DOMAIN payments :
                /\ k \in DOMAIN payments'
                /\ payments'[k] = payments[k]]_pmVars

====
